---- MODULE Spec2Model ----
(***************************************************************************)
(* Table-of-contents editor (src/App.tsx): the forest of TocNode values    *)
(* held by the App component, and the callbacks that rewrite it            *)
(* (handleAddChild, handleUpdateTitle, handleDeleteNode, handleMoveNode).  *)
(* A callback runs to its end and React commits the state it sets before   *)
(* the next callback runs (SpecBatch lets several callbacks run before the *)
(* commit).  The callbacks take strings, so they are called with the ids   *)
(* on display and with an id that matches no node.  SpecDrag and SpecEdit  *)
(* add the TreeNode components: their local state and event handlers.      *)
(*                                                                         *)
(* A TocNode is the record [id, title, children]; a forest is a sequence   *)
(* of TocNodes.  `string | null` values are modelled as strings, with the  *)
(* reserved string Null standing for null (no node id is ever Null).       *)
(* An optional node (TocNode | null) is a sequence of length 0 or 1.       *)
(***************************************************************************)
EXTENDS Naturals, Sequences, FiniteSets

VARIABLES
    nodes,           \* useState<TocNode[]>(initialData), App.tsx:34
    expandedNodes,   \* useState<Set<string>>, App.tsx:35
    draggingNodeId,  \* useState<string | null>(null), App.tsx:36
    clock,           \* the latest value new Date().getTime() returned, App.tsx:72
    steps,           \* callbacks invoked, or events handled, so far (bounds the model)
    moves,           \* of which calls of handleMoveNode (bounds the model)
    last,            \* the callback invoked last, its arguments, and the state before it
    pending,         \* the updates queued by setNodes/setExpandedNodes since the last render
    calls,           \* the callbacks invoked since the page was loaded (SpecBatch)
    dataTransfer,    \* e.dataTransfer 'text/plain' of the drag in progress, App.tsx:284
    treeNode         \* by node id, the state of its TreeNode component, App.tsx:253-255

\* what the App-level specifications leave alone
others == <<pending, calls, dataTransfer, treeNode>>

vars == <<nodes, expandedNodes, draggingNodeId, clock, steps, moves, last,
          pending, calls, dataTransfer, treeNode>>

----------------------------------------------------------------------------
(* Bounds of the model *)

\* callbacks invoked in one behaviour
MaxSteps == 2
\* calls of handleMoveNode in one behaviour
MaxMoves == 1
\* milliseconds the clock may advance in one behaviour
MaxTicks == 1
\* the clock reading when the page is loaded
LoadTime == 17

Null == "null"

----------------------------------------------------------------------------
(* Data *)

Leaf(id, title) == [id |-> id, title |-> title, children |-> <<>>]

initialData ==
    << [id |-> "1", title |-> "Chapter 1: The Beginning",
        children |->
          << Leaf("1-1", "The first step"),
             [id |-> "1-2", title |-> "A fork in the road",
              children |-> << Leaf("1-2-1", "The left path"),
                              Leaf("1-2-2", "The right path") >>] >>],
       Leaf("2", "Chapter 2: The Middle"),
       Leaf("3", "Chapter 3: The End") >>

initialExpanded == {"1", "1-2"}

\* Number.prototype.toString() of a non-negative integer: its decimal digits
Digit == <<"0", "1", "2", "3", "4", "5", "6", "7", "8", "9">>

RECURSIVE ToString(_)
ToString(n) ==
    IF n < 10 THEN Digit[n + 1]
    ELSE ToString(n \div 10) \o Digit[(n % 10) + 1]

----------------------------------------------------------------------------
(* The tree functions of App *)

\* Mutation of addNode: the new node is put first, not last
RECURSIVE addNode_Prepend(_, _, _)
addNode_Prepend(ns, parentId, newNode) ==
    IF parentId = Null
    THEN <<newNode>> \o ns
    ELSE [i \in 1..Len(ns) |->
            IF ns[i].id = parentId
            THEN [ns[i] EXCEPT !.children = <<newNode>> \o @]
            ELSE [ns[i] EXCEPT !.children = addNode_Prepend(@, parentId, newNode)]]

\* nodes.map(f) is written as a recursion over the sequence
RECURSIVE addNode(_, _, _)
RECURSIVE addNodeMap(_, _, _)
addNodeMap(ns, parentId, newNode) ==
    IF ns = <<>> THEN <<>>
    ELSE LET node == Head(ns)
         IN  <<IF node.id = parentId
               THEN [node EXCEPT !.children = Append(@, newNode)]
               ELSE IF Len(node.children) > 0
                    THEN [node EXCEPT !.children = addNode(@, parentId, newNode)]
                    ELSE node>>
             \o addNodeMap(Tail(ns), parentId, newNode)

\* Mutation of addNode: a parentId that matches no node is treated as null
addNode_OrphanToRoot(ns, parentId, newNode) ==
    IF parentId = Null \/ addNodeMap(ns, parentId, newNode) = ns
    THEN Append(ns, newNode)
    ELSE addNodeMap(ns, parentId, newNode)

addNode(ns, parentId, newNode) ==
    IF parentId = Null
    THEN Append(ns, newNode)
    ELSE addNodeMap(ns, parentId, newNode)

\* Mutation of updateNodeTitle: the renamed node is rebuilt without the
\* spread of its other fields, so it loses its children
RECURSIVE updateNodeTitle_DropsChildren(_, _, _)
updateNodeTitle_DropsChildren(ns, nodeId, newTitle) ==
    IF ns = <<>> THEN <<>>
    ELSE LET node == Head(ns)
         IN  <<IF node.id = nodeId
               THEN [id |-> node.id, title |-> newTitle, children |-> <<>>]
               ELSE [node EXCEPT !.children =
                        updateNodeTitle_DropsChildren(@, nodeId, newTitle)]>>
             \o updateNodeTitle_DropsChildren(Tail(ns), nodeId, newTitle)

RECURSIVE updateNodeTitle(_, _, _)
updateNodeTitle(ns, nodeId, newTitle) ==
    IF ns = <<>> THEN <<>>
    ELSE LET node == Head(ns)
         IN  <<IF node.id = nodeId
               THEN [node EXCEPT !.title = newTitle]
               ELSE IF Len(node.children) > 0
                    THEN [node EXCEPT !.children = updateNodeTitle(@, nodeId, newTitle)]
                    ELSE node>>
             \o updateNodeTitle(Tail(ns), nodeId, newTitle)

\* Mutation of deleteNode: the filter runs on the given sequence only, the
\* children of the nodes that stay are not processed
deleteNode_TopLevelOnly(ns, nodeId) ==
    SelectSeq(ns, LAMBDA node : node.id # nodeId)

\* nodes.filter(...).map(...)
RECURSIVE deleteNode(_, _)
deleteNode(ns, nodeId) ==
    IF ns = <<>> THEN <<>>
    ELSE LET node == Head(ns)
         IN  (IF node.id # nodeId
              THEN <<[node EXCEPT !.children = deleteNode(@, nodeId)]>>
              ELSE <<>>)
             \o deleteNode(Tail(ns), nodeId)

\* findNode: the first node with this id in document order, or none
RECURSIVE findNode(_, _)
findNode(searchNodes, id) ==
    IF searchNodes = <<>> THEN <<>>
    ELSE LET node == Head(searchNodes)
         IN  IF node.id = id THEN <<node>>
             ELSE LET foundInChildren == findNode(node.children, id)
                  IN  IF foundInChildren # <<>> THEN foundInChildren
                      ELSE findNode(Tail(searchNodes), id)

\* getDescendantIds, over the children sequence of the node
RECURSIVE DescendantIdsOf(_)
DescendantIdsOf(children) ==
    IF children = <<>> THEN <<>>
    ELSE <<Head(children).id>> \o DescendantIdsOf(Head(children).children)
                               \o DescendantIdsOf(Tail(children))

\* Mutation of getDescendantIds: the ids of the children only
getDescendantIds_ChildrenOnly(node) ==
    [i \in 1..Len(node.children) |-> node.children[i].id]

getDescendantIds(node) == DescendantIdsOf(node.children)

\* Mutation of includes: nothing is ever found
includes_Never(seq, x) == FALSE

includes(seq, x) == \E i \in 1..Len(seq) : seq[i] = x

\* JSON.parse(JSON.stringify(nodes)): a fresh forest rebuilt from the three
\* own properties of every node
RECURSIVE JSONClone(_)
JSONClone(ns) ==
    IF ns = <<>> THEN <<>>
    ELSE <<[id |-> Head(ns).id, title |-> Head(ns).title,
            children |-> JSONClone(Head(ns).children)]>>
         \o JSONClone(Tail(ns))

\* Mutation of remove: only the given sequence is filtered
remove_TopLevelOnly(items, id, dragged) ==
    LET hits == SelectSeq(items, LAMBDA item : item.id = id)
    IN  [items   |-> SelectSeq(items, LAMBDA item : item.id # id),
         dragged |-> IF hits = <<>> THEN dragged ELSE <<hits[Len(hits)]>>]

\* remove: filters every level; draggedNode is assigned at each match, so the
\* match visited last is the one kept.  `dragged` threads the variable
\* draggedNode through the traversal.
RECURSIVE remove(_, _, _)
remove(items, id, dragged) ==
    IF items = <<>> THEN [items |-> <<>>, dragged |-> dragged]
    ELSE LET item == Head(items)
         IN  IF item.id = id
             THEN remove(Tail(items), id, <<item>>)
             ELSE LET sub  == remove(item.children, id, dragged)
                      rest == remove(Tail(items), id, sub.dragged)
                  IN  [items   |-> <<[item EXCEPT !.children = sub.items]>> \o rest.items,
                       dragged |-> rest.dragged]

\* Mutation of insert: the two positions are exchanged
RECURSIVE insert_Swapped(_, _, _, _)
insert_Swapped(items, tId, nodeToInsert, pos) ==
    IF items = <<>> THEN <<>>
    ELSE LET item == Head(items)
         IN  (IF item.id = tId
              THEN (IF pos = "top" THEN <<item, nodeToInsert>>
                                   ELSE <<nodeToInsert, item>>)
              ELSE <<[item EXCEPT !.children = insert_Swapped(@, tId, nodeToInsert, pos)]>>)
             \o insert_Swapped(Tail(items), tId, nodeToInsert, pos)

\* Mutation of insert: the dragged node takes the place of the target
RECURSIVE insert_ReplacesTarget(_, _, _, _)
insert_ReplacesTarget(items, tId, nodeToInsert, pos) ==
    IF items = <<>> THEN <<>>
    ELSE LET item == Head(items)
         IN  (IF item.id = tId
              THEN <<nodeToInsert>>
              ELSE <<[item EXCEPT !.children =
                        insert_ReplacesTarget(@, tId, nodeToInsert, pos)]>>)
             \o insert_ReplacesTarget(Tail(items), tId, nodeToInsert, pos)

RECURSIVE insert(_, _, _, _)
insert(items, tId, nodeToInsert, pos) ==
    IF items = <<>> THEN <<>>
    ELSE LET item == Head(items)
         IN  (IF item.id = tId
              THEN (IF pos = "top" THEN <<nodeToInsert, item>>
                                   ELSE <<item, nodeToInsert>>)
              ELSE <<[item EXCEPT !.children = insert(@, tId, nodeToInsert, pos)]>>)
             \o insert(Tail(items), tId, nodeToInsert, pos)

\* what a function without a return statement gives its caller
Undefined == "undefined"

\* An object graph: the forest value it holds, and whose objects they are
\* ("state": the objects the nodes state refers to; "copy": fresh ones).
StateGraph(ns) == [heap |-> "state", forest |-> ns]

jsonRoundTrip_Alias(g) == g

\* JSON.parse(JSON.stringify(nodes)): equal values in objects of its own
jsonRoundTrip(g) == [heap |-> "copy", forest |-> JSONClone(g.forest)]

\* The objects of `items` after remove(items, id) has run on them: filter
\* builds a new array and leaves `items` as it is, while every item it looks
\* into has its children field reassigned to the filtered children.
removeInPlace(items, id) ==
    [i \in 1..Len(items) |->
        IF items[i].id = id THEN items[i]
        ELSE [items[i] EXCEPT !.children = remove(@, id, <<>>).items]]

\* The body of handleMoveNode on the forest it closes over: whether setNodes
\* is called (set) and with which forest (tree), whether console.error is
\* called (logged), the value returned (ret), and the forest the objects of
\* the closed-over nodes hold when it returns (held).
moveNode(ns, draggedId, targetId, position) ==
    LET foundDraggedNode == findNode(ns, draggedId)
    IN  IF /\ foundDraggedNode # <<>>
           /\ includes(getDescendantIds(foundDraggedNode[1]), targetId)
        THEN [set |-> FALSE, tree |-> ns, logged |-> TRUE, ret |-> Undefined,
              held |-> ns]
        ELSE LET copy == jsonRoundTrip(StateGraph(ns))
                 r == remove(copy.forest, draggedId, <<>>)
                 held == IF copy.heap = "state"
                         THEN removeInPlace(ns, draggedId) ELSE ns
             IN  IF r.dragged # <<>>
                 THEN [set |-> TRUE,
                       tree |-> insert(r.items, targetId, r.dragged[1], position),
                       logged |-> FALSE, ret |-> Undefined, held |-> held]
                 ELSE [set |-> FALSE, tree |-> ns, logged |-> FALSE,
                       ret |-> Undefined, held |-> held]

----------------------------------------------------------------------------
(* Helpers over forests *)

\* every id of the forest, in document order (with repetitions)
RECURSIVE IdSeq(_)
IdSeq(ns) ==
    IF ns = <<>> THEN <<>>
    ELSE <<Head(ns).id>> \o IdSeq(Head(ns).children) \o IdSeq(Tail(ns))

Range(seq) == {seq[i] : i \in 1..Len(seq)}

Ids(ns) == Range(IdSeq(ns))

\* an id that no node of any reachable forest has
Absent == "nonexistent"

\* ids a caller may pass: the ids on display, and one that matches nothing
ArgIds == Ids(nodes) \cup {Absent}

Positions == {"top", "bottom"}

NewTitles == {"A"}

----------------------------------------------------------------------------
(* Actions *)

Record(op, id, target, pos, title, now) ==
    [op |-> op, id |-> id, target |-> target, pos |-> pos, title |-> title,
     before |-> nodes, expandedBefore |-> expandedNodes, now |-> now,
     held |-> nodes, ret |-> Undefined, logged |-> FALSE, text |-> <<>>]

\* the state a TreeNode is mounted with: three useState initial values.  The
\* text of the input is a sequence of pieces, each a whitespace character
\* or a run of characters with no whitespace at either end.
Mount(node) == [isEditing |-> FALSE, title |-> <<node.title>>, dropPosition |-> Null]

\* the ids of the nodes that are rendered: the roots, and the children of a
\* rendered node that is expanded
RECURSIVE MountedIds(_, _)
MountedIds(ns, expanded) ==
    IF ns = <<>> THEN {}
    ELSE {Head(ns).id}
         \cup (IF Head(ns).id \in expanded
               THEN MountedIds(Head(ns).children, expanded) ELSE {})
         \cup MountedIds(Tail(ns), expanded)

\* where the node of the id is rendered: the ids above it, outermost first
\* (a sequence of length 0 when no node has the id)
RECURSIVE PathOf(_, _, _)
PathOf(ns, id, above) ==
    IF ns = <<>> THEN <<>>
    ELSE LET n == Head(ns)
             below == PathOf(n.children, id, Append(above, n.id))
         IN  IF n.id = id THEN <<above>>
             ELSE IF below # <<>> THEN below
             ELSE PathOf(Tail(ns), id, above)

\* The TreeNode states after a render: React keeps the component of a key
\* that stays under the same parent component, mounts a new one otherwise.
remount(tn, before, after, expanded) ==
    [id \in MountedIds(after, expanded) |->
        IF id \in DOMAIN tn /\ PathOf(after, id, <<>>) = PathOf(before, id, <<>>)
        THEN tn[id]
        ELSE Mount(findNode(after, id)[1])]

Init ==
    /\ nodes = initialData
    /\ expandedNodes = initialExpanded
    /\ draggingNodeId = Null
    /\ clock = LoadTime
    /\ steps = 0
    /\ moves = 0
    /\ last = [op |-> "init", id |-> Null, target |-> Null, pos |-> Null,
               title |-> Null, before |-> initialData,
               expandedBefore |-> initialExpanded, now |-> LoadTime,
               held |-> initialData, ret |-> Undefined, logged |-> FALSE,
               text |-> <<>>]
    /\ pending = <<>>
    /\ calls = <<>>
    /\ dataTransfer = Null
    /\ treeNode = [id \in MountedIds(initialData, initialExpanded) |->
                        Mount(findNode(initialData, id)[1])]

\* the readings new Date().getTime() may give: time does not run backwards,
\* and less than a millisecond may have passed since the latest reading
Readings == {t \in {clock, clock + 1} : t <= LoadTime + MaxTicks}

\* Mutation of handleAddChild: the parent is not added to expandedNodes
AddChild_NoExpand(parentId, now) ==
    LET newNode == [id |-> ToString(now), title |-> "New Section",
                    children |-> <<>>]
    IN  /\ nodes' = addNode(nodes, parentId, newNode)
        /\ clock' = now
        /\ last' = Record("add", parentId, Null, Null, "New Section", now)
        /\ UNCHANGED <<expandedNodes, draggingNodeId>>

\* handleAddChild(parentId), called when the clock reads `now`
AddChild(parentId, now) ==
    LET newNode == [id |-> ToString(now), title |-> "New Section",
                    children |-> <<>>]
    IN  /\ nodes' = addNode(nodes, parentId, newNode)
        /\ expandedNodes' = IF parentId # Null /\ parentId # ""
                            THEN expandedNodes \cup {parentId}
                            ELSE expandedNodes
        /\ clock' = now
        /\ last' = Record("add", parentId, Null, Null, "New Section", now)
        /\ UNCHANGED draggingNodeId

\* handleUpdateTitle(nodeId, newTitle)
UpdateTitle(nodeId, newTitle) ==
    /\ nodes' = updateNodeTitle(nodes, nodeId, newTitle)
    /\ last' = Record("rename", nodeId, Null, Null, newTitle, clock)
    /\ UNCHANGED <<expandedNodes, draggingNodeId, clock>>

\* handleDeleteNode(nodeId)
DeleteNode(nodeId) ==
    /\ nodes' = deleteNode(nodes, nodeId)
    /\ last' = Record("delete", nodeId, Null, Null, Null, clock)
    /\ UNCHANGED <<expandedNodes, draggingNodeId, clock>>

\* handleMoveNode(draggedId, targetId, position)
MoveNode(draggedId, targetId, position) ==
    \E m \in {moveNode(nodes, draggedId, targetId, position)} :
        /\ nodes' = IF m.set THEN m.tree ELSE m.held
        /\ last' = [Record("move", draggedId, targetId, position, Null, clock)
                    EXCEPT !.held = m.held, !.ret = m.ret, !.logged = m.logged]
        /\ UNCHANGED <<expandedNodes, draggingNodeId, clock>>

HandleAddChild ==
    /\ steps < MaxSteps
    /\ \E parentId \in ArgIds \cup {Null}, now \in Readings :
         AddChild(parentId, now)
    /\ steps' = steps + 1
    /\ UNCHANGED <<moves, others>>

HandleUpdateTitle ==
    /\ steps < MaxSteps
    /\ \E nodeId \in ArgIds, newTitle \in NewTitles :
         UpdateTitle(nodeId, newTitle)
    /\ steps' = steps + 1
    /\ UNCHANGED <<moves, others>>

HandleDeleteNode ==
    /\ steps < MaxSteps
    /\ \E nodeId \in ArgIds : DeleteNode(nodeId)
    /\ steps' = steps + 1
    /\ UNCHANGED <<moves, others>>

HandleMoveNode ==
    /\ steps < MaxSteps
    /\ moves < MaxMoves
    /\ \E draggedId \in ArgIds, targetId \in ArgIds, position \in Positions :
         MoveNode(draggedId, targetId, position)
    /\ steps' = steps + 1
    /\ moves' = moves + 1
    /\ UNCHANGED others

Next ==
    \/ HandleAddChild
    \/ HandleUpdateTitle
    \/ HandleDeleteNode
    \/ HandleMoveNode

Spec == Init /\ [][Next]_vars

\* The callbacks that work through a functional update of nodes, without the
\* moves: up to MaxSteps calls of handleAddChild, handleUpdateTitle and
\* handleDeleteNode.
NextEdits ==
    \/ HandleAddChild
    \/ HandleUpdateTitle
    \/ HandleDeleteNode

SpecEdits == Init /\ [][NextEdits]_vars

\* The forests that deletions alone leave of initialData, and the moves made
\* on them: handleDeleteNode on a node on display, any number of times, and
\* then up to MaxMoves calls of handleMoveNode.
PruneStep ==
    /\ moves = 0
    /\ \E nodeId \in Ids(nodes) : DeleteNode(nodeId)
    /\ UNCHANGED <<steps, moves, others>>

MoveStep ==
    /\ moves < MaxMoves
    /\ \E draggedId \in ArgIds, targetId \in ArgIds, position \in Positions :
         MoveNode(draggedId, targetId, position)
    /\ moves' = moves + 1
    /\ UNCHANGED <<steps, others>>

NextPruned == PruneStep \/ MoveStep

SpecPruned == Init /\ [][NextPruned]_vars

\* The forests that additions make of initialData, and the moves made on
\* them: up to MaxSteps calls of handleAddChild and up to MaxMoves calls of
\* handleMoveNode.
NextGrown == HandleAddChild \/ MoveStep

SpecGrown == Init /\ [][NextGrown]_vars

----------------------------------------------------------------------------
(* Batched updates: several callbacks run before React renders again *)

\* An update queued by setNodes: an updater function (currentNodes => ...)
\* of handleAddChild, handleUpdateTitle or handleDeleteNode, or the value
\* newTree of handleMoveNode.
Update(kind, id, title, node, tree) ==
    [kind |-> kind, id |-> id, title |-> title, node |-> node, tree |-> tree]

\* React runs the queue in order: an updater gets the forest the updates
\* before it have made, a value replaces that forest
applyUpdate(ns, u) ==
    CASE u.kind = "add" -> addNode(ns, u.id, u.node[1])
      [] u.kind = "rename" -> updateNodeTitle(ns, u.id, u.title)
      [] u.kind = "delete" -> deleteNode(ns, u.id)
      [] u.kind = "set" -> u.tree

RECURSIVE flush(_, _)
flush(ns, queue) ==
    IF queue = <<>> THEN ns
    ELSE flush(applyUpdate(ns, Head(queue)), Tail(queue))

\* the updaters of setExpandedNodes that handleAddChild queued
RECURSIVE flushExpanded(_, _)
flushExpanded(prev, queue) ==
    IF queue = <<>> THEN prev
    ELSE LET u == Head(queue)
         IN  flushExpanded(IF u.kind = "add" /\ u.id # Null /\ u.id # ""
                           THEN prev \cup {u.id} ELSE prev,
                           Tail(queue))

Call(op, id, target, pos, title, node) ==
    [op |-> op, id |-> id, target |-> target, pos |-> pos, title |-> title,
     node |-> node]

\* handleAddChild(parentId) before the next render
CallAddChild ==
    /\ steps < MaxSteps
    /\ \E parentId \in ArgIds \cup {Null}, now \in Readings :
         LET newNode == [id |-> ToString(now), title |-> "New Section",
                         children |-> <<>>]
         IN  /\ pending' = Append(pending, Update("add", parentId, Null, <<newNode>>, <<>>))
             /\ calls' = Append(calls, Call("add", parentId, Null, Null, Null, <<newNode>>))
             /\ clock' = now
             /\ last' = Record("add", parentId, Null, Null, "New Section", now)
    /\ steps' = steps + 1
    /\ UNCHANGED <<nodes, expandedNodes, draggingNodeId, moves, dataTransfer, treeNode>>

\* handleUpdateTitle(nodeId, newTitle) before the next render
CallUpdateTitle ==
    /\ steps < MaxSteps
    /\ \E nodeId \in ArgIds, newTitle \in NewTitles :
         /\ pending' = Append(pending, Update("rename", nodeId, newTitle, <<>>, <<>>))
         /\ calls' = Append(calls, Call("rename", nodeId, Null, Null, newTitle, <<>>))
         /\ last' = Record("rename", nodeId, Null, Null, newTitle, clock)
    /\ steps' = steps + 1
    /\ UNCHANGED <<nodes, expandedNodes, draggingNodeId, clock, moves, dataTransfer, treeNode>>

\* handleDeleteNode(nodeId) before the next render
CallDeleteNode ==
    /\ steps < MaxSteps
    /\ \E nodeId \in ArgIds :
         /\ pending' = Append(pending, Update("delete", nodeId, Null, <<>>, <<>>))
         /\ calls' = Append(calls, Call("delete", nodeId, Null, Null, Null, <<>>))
         /\ last' = Record("delete", nodeId, Null, Null, Null, clock)
    /\ steps' = steps + 1
    /\ UNCHANGED <<nodes, expandedNodes, draggingNodeId, clock, moves, dataTransfer, treeNode>>

\* handleMoveNode(draggedId, targetId, position) before the next render: the
\* callback is the one of the last render (useCallback(..., [nodes])), so it
\* reads the forest of that render, and setNodes(newTree) queues a value
CallMoveNode ==
    /\ steps < MaxSteps
    /\ moves < MaxMoves
    /\ \E draggedId \in ArgIds, targetId \in ArgIds, position \in Positions :
         \E m \in {moveNode(nodes, draggedId, targetId, position)} :
            /\ pending' = IF m.set
                          THEN Append(pending, Update("set", Null, Null, <<>>, m.tree))
                          ELSE pending
            /\ calls' = Append(calls, Call("move", draggedId, targetId, position, Null, <<>>))
            /\ last' = Record("move", draggedId, targetId, position, Null, clock)
    /\ steps' = steps + 1
    /\ moves' = moves + 1
    /\ UNCHANGED <<nodes, expandedNodes, draggingNodeId, clock, dataTransfer, treeNode>>

\* React renders: the queued updates are run in order and committed
Render ==
    /\ pending # <<>>
    /\ nodes' = flush(nodes, pending)
    /\ expandedNodes' = flushExpanded(expandedNodes, pending)
    /\ pending' = <<>>
    /\ last' = Record("render", Null, Null, Null, Null, clock)
    /\ UNCHANGED <<draggingNodeId, clock, steps, moves, calls, dataTransfer, treeNode>>

NextBatch ==
    \/ CallAddChild
    \/ CallUpdateTitle
    \/ CallDeleteNode
    \/ CallMoveNode
    \/ Render

SpecBatch == Init /\ [][NextBatch]_vars

----------------------------------------------------------------------------
(* Drag and drop: the drag handlers of TreeNode *)

\* drag events in one behaviour of SpecDrag, input events in one of SpecEdit
MaxEvents == 3

\* setDropPosition(null) of handleDrop, skipped
clearDropPosition_Skip(tn, id) == tn

\* setDropPosition(null) on the TreeNode of the id
clearDropPosition(tn, id) == [tn EXCEPT ![id].dropPosition = Null]

\* handleDragStart of the TreeNode of `id`; the browser starts one drag at a time
DragStart(id) ==
    /\ dataTransfer = Null
    /\ dataTransfer' = id
    /\ draggingNodeId' = id
    /\ last' = Record("dragstart", id, Null, Null, Null, clock)
    /\ UNCHANGED <<nodes, treeNode>>

\* a drag that starts outside the page: its text/plain data is any text, or
\* "" when it carries none
DragEnter(text) ==
    /\ dataTransfer = Null
    /\ dataTransfer' = text
    /\ last' = Record("dragenter", text, Null, Null, Null, clock)
    /\ UNCHANGED <<nodes, draggingNodeId, treeNode>>

\* handleDragOver of the TreeNode of `id`, the pointer in its upper ("top")
\* or lower ("bottom") half
DragOver(id, position) ==
    /\ dataTransfer # Null
    /\ treeNode' = [treeNode EXCEPT ![id].dropPosition = position]
    /\ last' = Record("dragover", dataTransfer, id, position, Null, clock)
    /\ UNCHANGED <<nodes, draggingNodeId, dataTransfer>>

\* handleDragLeave of the TreeNode of `id`
DragLeave(id) ==
    /\ dataTransfer # Null
    /\ treeNode' = clearDropPosition(treeNode, id)
    /\ last' = Record("dragleave", dataTransfer, id, Null, Null, clock)
    /\ UNCHANGED <<nodes, draggingNodeId, dataTransfer>>

\* handleDrop of the TreeNode of `id`; the drop ends the drag
Drop(id) ==
    LET draggedId == dataTransfer
        dropPosition == treeNode[id].dropPosition
    IN  /\ dataTransfer # Null
        /\ \E m \in {IF draggedId # "" /\ draggedId # id /\ dropPosition # Null
                      THEN moveNode(nodes, draggedId, id, dropPosition)
                      ELSE [set |-> FALSE, tree |-> nodes, logged |-> FALSE,
                            ret |-> Undefined, held |-> nodes]} :
             /\ nodes' = IF m.set THEN m.tree ELSE m.held
             /\ treeNode' = remount(clearDropPosition(treeNode, id), nodes, nodes',
                                    expandedNodes)
             /\ last' = [Record("drop", draggedId, id, dropPosition, Null, clock)
                         EXCEPT !.held = m.held, !.logged = m.logged]
        /\ draggingNodeId' = Null
        /\ dataTransfer' = Null

\* the drag ends without a drop on a node: handleDragEnd of the dragged
\* TreeNode when the drag started on one
DragEnd ==
    /\ dataTransfer # Null
    /\ draggingNodeId' = Null
    /\ dataTransfer' = Null
    /\ last' = Record("dragend", dataTransfer, Null, Null, Null, clock)
    /\ UNCHANGED <<nodes, treeNode>>

DragEvent ==
    \/ \E id \in DOMAIN treeNode : DragStart(id)
    \/ \E text \in {Absent, ""} : DragEnter(text)
    \/ \E id \in DOMAIN treeNode, position \in Positions : DragOver(id, position)
    \/ \E id \in DOMAIN treeNode : DragLeave(id)
    \/ \E id \in DOMAIN treeNode : Drop(id)
    \/ DragEnd

NextDrag ==
    /\ steps < MaxEvents
    /\ DragEvent
    /\ steps' = steps + 1
    /\ UNCHANGED <<expandedNodes, clock, moves, pending, calls>>

SpecDrag == Init /\ [][NextDrag]_vars

----------------------------------------------------------------------------
(* Editing a title: the input of TreeNode and handleSave *)

Whitespace == {" ", "\t"}

\* the string a text stands for
RECURSIVE Str(_)
Str(text) == IF text = <<>> THEN "" ELSE Head(text) \o Str(Tail(text))

RECURSIVE trimStart(_)
trimStart(text) ==
    IF text # <<>> /\ Head(text) \in Whitespace THEN trimStart(Tail(text)) ELSE text

RECURSIVE trimEnd(_)
trimEnd(text) ==
    IF text # <<>> /\ text[Len(text)] \in Whitespace
    THEN trimEnd(SubSeq(text, 1, Len(text) - 1))
    ELSE text

\* String.prototype.trim: whitespace is taken off both ends
trim(text) == trimEnd(trimStart(text))

\* what a user may have typed into the input
Typed ==
    { <<>>, <<" ">>, <<"\t", " ">>, <<"A">>, <<" ", "A", "\t">>, <<"A", " ", "B">> }

\* Mutation of handleSave: onUpdateTitle is called whatever the text is
saveRequest_NoCheck(text) == <<Str(trim(text))>>

\* handleSave: the argument it calls onUpdateTitle(node.id, ...) with, as a
\* sequence of length 1, or of length 0 when it does not call it
saveRequest(text) ==
    IF Str(trim(text)) # "" THEN <<Str(trim(text))>> ELSE <<>>

\* the edit button: setIsEditing(true)
EditClick(id) ==
    /\ treeNode' = [treeNode EXCEPT ![id].isEditing = TRUE]
    /\ last' = Record("edit", id, Null, Null, Null, clock)
    /\ UNCHANGED <<nodes, expandedNodes, clock>>

\* onChange of the input: setTitle(e.target.value)
Change(id, text) ==
    /\ treeNode[id].isEditing
    /\ treeNode' = [treeNode EXCEPT ![id].title = text]
    /\ last' = [Record("change", id, Null, Null, Null, clock) EXCEPT !.text = text]
    /\ UNCHANGED <<nodes, expandedNodes, clock>>

\* handleSave of the TreeNode of `id`: Enter in the input, or its blur
Save(id) ==
    LET title == treeNode[id].title
        node == findNode(nodes, id)[1]
        request == saveRequest(title)
    IN  /\ treeNode[id].isEditing
        /\ nodes' = IF request # <<>>
                     THEN updateNodeTitle(nodes, id, request[1])
                     ELSE nodes
        /\ treeNode' = [treeNode EXCEPT
                           ![id].title = IF request # <<>> THEN @ ELSE <<node.title>>,
                           ![id].isEditing = FALSE]
        /\ last' = [Record("save", id, Null, Null, Null, clock) EXCEPT !.text = title]
        /\ UNCHANGED <<expandedNodes, clock>>

\* Escape in the input: setTitle(node.title), setIsEditing(false)
Escape(id) ==
    /\ treeNode[id].isEditing
    /\ treeNode' = [treeNode EXCEPT
                       ![id].title = <<findNode(nodes, id)[1].title>>,
                       ![id].isEditing = FALSE]
    /\ last' = Record("escape", id, Null, Null, Null, clock)
    /\ UNCHANGED <<nodes, expandedNodes, clock>>

\* the add button of a TreeNode, or Add Chapter (null): handleAddChild, and
\* the render that mounts the TreeNode of the new node
AddClick(parentId, now) ==
    /\ AddChild(parentId, now)
    /\ treeNode' = remount(treeNode, nodes, nodes', expandedNodes')

EditEvent ==
    \/ \E id \in DOMAIN treeNode : EditClick(id)
    \/ \E id \in DOMAIN treeNode, text \in Typed : Change(id, text)
    \/ \E id \in DOMAIN treeNode : Save(id)
    \/ \E id \in DOMAIN treeNode : Escape(id)
    \/ \E parentId \in DOMAIN treeNode \cup {Null}, now \in Readings :
         AddClick(parentId, now)

NextEdit ==
    /\ steps < MaxEvents
    /\ EditEvent
    /\ steps' = steps + 1
    /\ UNCHANGED <<draggingNodeId, moves, pending, calls, dataTransfer>>

SpecEdit == Init /\ [][NextEdit]_vars

----------------------------------------------------------------------------
(* Vocabulary of the properties *)

\* every node of the forest, as the subtree it roots
RECURSIVE AllNodes(_)
AllNodes(ns) ==
    IF ns = <<>> THEN {}
    ELSE {Head(ns)} \cup AllNodes(Head(ns).children) \cup AllNodes(Tail(ns))

\* every sibling sequence of the forest: the root sequence and every children
RECURSIVE SiblingSeqs(_)
SiblingSeqs(ns) ==
    {ns} \cup UNION {SiblingSeqs(n.children) : n \in Range(ns)}

NodesWithId(ns, id) == {n \in AllNodes(ns) : n.id = id}

Unique(ns) == Cardinality(Ids(ns)) = Len(IdSeq(ns))

NoSelfAncestor(ns) ==
    \A n \in AllNodes(ns) : n.id \notin Ids(n.children)

\* the descendant set of a node: every id below it
DescendantSet(n) == Ids(n.children)

\* targetId is in the descendant set of the node draggedId designates (with
\* ids that repeat, the first node of that id in document order)
IsDescendantTarget(ns, draggedId, targetId) ==
    /\ findNode(ns, draggedId) # <<>>
    /\ targetId \in DescendantSet(findNode(ns, draggedId)[1])

\* in some sibling sequence the node draggedId stands next to the node
\* targetId: right before it for "top", right after it for "bottom"
PlacedNextTo(ns, draggedId, targetId, pos) ==
    \E s \in SiblingSeqs(ns) : \E i \in 1..(Len(s) - 1) :
        IF pos = "top"
        THEN s[i].id = draggedId /\ s[i + 1].id = targetId
        ELSE s[i].id = targetId /\ s[i + 1].id = draggedId

\* the forest as the list of its nodes in document order, each with its depth
RECURSIVE Rows(_, _)
Rows(ns, depth) ==
    IF ns = <<>> THEN <<>>
    ELSE <<[depth |-> depth, id |-> Head(ns).id, title |-> Head(ns).title]>>
         \o Rows(Head(ns).children, depth + 1)
         \o Rows(Tail(ns), depth)

\* rows without every row of id x and the rows of its subtree (the deeper rows
\* that follow it).  skip = 0: not inside a dropped subtree; skip = d + 1:
\* inside the subtree of a dropped row of depth d.
RECURSIVE DropSubtrees(_, _, _)
DropSubtrees(rows, x, skip) ==
    IF rows = <<>> THEN <<>>
    ELSE LET r == Head(rows)
         IN  IF skip > 0 /\ r.depth >= skip
             THEN DropSubtrees(Tail(rows), x, skip)
             ELSE IF r.id = x
                  THEN DropSubtrees(Tail(rows), x, r.depth + 1)
                  ELSE <<r>> \o DropSubtrees(Tail(rows), x, 0)

----------------------------------------------------------------------------
(* Properties *)

\* C1: after any sequence of add, rename, delete and move, every node id
\* occurs at most once in the forest.
C1_Uniqueness == Unique(nodes)

C3_MoveKeepsIds ==
    last.op = "move" => Ids(nodes) = Ids(last.before)

\* C4: a move whose draggedId or targetId matches no node of the forest
\* leaves the forest unchanged.
C4_MoveNotFoundUnchanged ==
    (/\ last.op = "move"
     /\ (last.id \notin Ids(last.before) \/ last.target \notin Ids(last.before)))
    => nodes = last.before

\* C5: a move of node X whose targetId is in the descendant set of X leaves
\* the forest identical to the forest before the call, for both positions.
C5_DescendantTargetRejected ==
    (/\ last.op = "move"
     /\ IsDescendantTarget(last.before, last.id, last.target))
    => nodes = last.before

C5_Witness ==
    /\ last.op = "move"
    /\ last.id = "1"
    /\ last.target = "1-2-1"
    /\ last.pos = "bottom"
    /\ IsDescendantTarget(last.before, last.id, last.target)
    /\ nodes = last.before

\* C6: a move whose draggedId equals its targetId leaves the forest
\* unchanged, for both positions.
C6_SelfTargetRejected ==
    (last.op = "move" /\ last.id = last.target) => nodes = last.before

\* C7: when draggedId and targetId are both present, differ, and targetId is
\* not a descendant of draggedId, after the move the dragged node stands in
\* the sibling sequence of the target node, immediately before it for "top"
\* and immediately after it for "bottom".
C7_Applies ==
    /\ last.op = "move"
    /\ last.id \in Ids(last.before)
    /\ last.target \in Ids(last.before)
    /\ last.id # last.target
    /\ ~IsDescendantTarget(last.before, last.id, last.target)

C7_MovePlacement ==
    C7_Applies => PlacedNextTo(nodes, last.id, last.target, last.pos)

C7_Witness ==
    /\ C7_Applies
    /\ last.id = "3"
    /\ last.target = "1-2-2"
    /\ last.pos = "bottom"
    /\ PlacedNextTo(nodes, "3", "1-2-2", "bottom")
    /\ ~PlacedNextTo(last.before, "3", "1-2-2", "bottom")

\* C8: when targetId is a proper ancestor of draggedId the move is carried
\* out: the forest changes, the dragged node leaves the subtree of the
\* ancestor and stands next to it, before it for "top" and after it for
\* "bottom".  In the forest [1:[1-1]], move(1-1, 1, top) gives the root
\* sequence [1-1, 1], node 1 having no children.
RECURSIVE Shape(_)
Shape(ns) ==
    IF ns = <<>> THEN <<>>
    ELSE <<[id |-> Head(ns).id, children |-> Shape(Head(ns).children)]>>
         \o Shape(Tail(ns))

ShapeLeaf(id) == [id |-> id, children |-> <<>>]

C8_TargetIsAncestor ==
    /\ last.op = "move"
    /\ last.id # last.target
    /\ findNode(last.before, last.target) # <<>>
    /\ last.id \in DescendantSet(findNode(last.before, last.target)[1])
    /\ ~IsDescendantTarget(last.before, last.id, last.target)

C8_Scenario ==
    /\ last.op = "move"
    /\ Shape(last.before) = <<[id |-> "1", children |-> <<ShapeLeaf("1-1")>>]>>
    /\ last.id = "1-1"
    /\ last.target = "1"
    /\ last.pos = "top"

C8_MoveNextToAncestor ==
    /\ C8_TargetIsAncestor =>
          /\ nodes # last.before
          /\ PlacedNextTo(nodes, last.id, last.target, last.pos)
          /\ findNode(nodes, last.target) # <<>>
          /\ last.id \notin DescendantSet(findNode(nodes, last.target)[1])
    /\ C8_Scenario => Shape(nodes) = <<ShapeLeaf("1-1"), ShapeLeaf("1")>>

C8_Witness ==
    /\ C8_Scenario
    /\ C8_TargetIsAncestor
    /\ Shape(nodes) = <<ShapeLeaf("1-1"), ShapeLeaf("1")>>

\* C9: deleting node X removes exactly the nodes of id X and their
\* descendants; every other node keeps its place (its parent, its depth and
\* its order among the nodes that stay), and nothing of the removed subtrees
\* is left in the forest.
C9_CascadingDelete ==
    last.op = "delete" =>
        Rows(nodes, 0) = DropSubtrees(Rows(last.before, 0), last.id, 0)

C9_Witness ==
    /\ last.op = "delete"
    /\ last.id = "1-2"
    /\ Ids(last.before) \ Ids(nodes) = {"1-2", "1-2-1", "1-2-2"}
    /\ Rows(nodes, 0) = DropSubtrees(Rows(last.before, 0), last.id, 0)

\* C10: add with an existing parentId P makes the new node the last element
\* of the children of P, and add with a null parentId makes it the last
\* element of the root sequence; the elements already in that sequence keep
\* their order, and the new node has no children.
AddedNode == [id |-> ToString(last.now), title |-> "New Section", children |-> <<>>]

C10_AddAppendsLast ==
    /\ (last.op = "add" /\ last.id = Null)
          => nodes = last.before \o <<AddedNode>>
    /\ (last.op = "add" /\ last.id # Null /\ last.id \in Ids(last.before))
          => findNode(nodes, last.id)[1].children
               = findNode(last.before, last.id)[1].children \o <<AddedNode>>

C10_Witness ==
    /\ last.op = "add"
    /\ last.id = "1-2"
    /\ Len(findNode(nodes, "1-2")[1].children) = 3
    /\ findNode(nodes, "1-2")[1].children[3] = AddedNode

\* C11: add with a non-null parentId, rename and delete, called with an id
\* that matches no node of the forest, leave the forest equal to the forest
\* before the call (and the call completes: every operator is total).
C11_UnknownIdNoOp ==
    (/\ last.op \in {"add", "rename", "delete"}
     /\ last.id # Null
     /\ last.id \notin Ids(last.before))
    => nodes = last.before

C11_Witness ==
    /\ last.op = "add"
    /\ last.id = Absent
    /\ nodes = last.before

\* the outcome the claim C14 says a move yields
Outcome(ns, draggedId, targetId) ==
    IF draggedId \notin Ids(ns) \/ targetId \notin Ids(ns)
    THEN "Rejected(NotFound)"
    ELSE IF draggedId = targetId \/ IsDescendantTarget(ns, draggedId, targetId)
         THEN "Rejected(DescendantTarget)"
         ELSE "Accepted"

C17_OthersKeepPlace ==
    last.op \in {"move", "delete"} =>
        DropSubtrees(Rows(nodes, 0), last.id, 0)
            = DropSubtrees(Rows(last.before, 0), last.id, 0)

C17_Witness ==
    /\ last.op = "move"
    /\ last.id = "1-2"
    /\ last.target = "3"
    /\ last.pos = "top"
    /\ nodes # last.before
    /\ PlacedNextTo(nodes, "1-2", "3", "top")

\* C18: rename with an id of the forest keeps every row of the forest (id,
\* depth, document order), changes the title of no row of another id, and
\* the node of that id has the new title.
C18_RenameOnlyTitle ==
    (last.op = "rename" /\ last.id \in Ids(last.before)) =>
        LET a == Rows(nodes, 0)
            b == Rows(last.before, 0)
        IN  /\ Len(a) = Len(b)
            /\ \A i \in 1..Len(b) :
                 /\ a[i].id = b[i].id
                 /\ a[i].depth = b[i].depth
                 /\ b[i].id # last.id => a[i].title = b[i].title
            /\ findNode(nodes, last.id)[1].title = last.title

C18_Witness ==
    /\ last.op = "rename"
    /\ last.id = "1-2"
    /\ findNode(nodes, "1-2")[1].title = "A"
    /\ findNode(nodes, "1-2")[1].children = findNode(last.before, "1-2")[1].children
    /\ nodes # last.before

Occurrences(ns, id) == Cardinality({i \in 1..Len(IdSeq(ns)) : IdSeq(ns)[i] = id})

\* C16: after an accepted move (both ids in the forest, different, the
\* target not below the dragged node) the dragged node occurs exactly once
\* in the forest, and the subtree it roots is the subtree it rooted before:
\* same ids, titles, nesting and child order.
C16_SubtreeIntactOnce ==
    C7_Applies =>
        /\ Occurrences(nodes, last.id) = 1
        /\ findNode(nodes, last.id) = findNode(last.before, last.id)

\* the effect of one invoked callback on the forest it is applied to
applyCall(ns, c) ==
    CASE c.op = "add" -> addNode(ns, c.id, c.node[1])
      [] c.op = "rename" -> updateNodeTitle(ns, c.id, c.title)
      [] c.op = "delete" -> deleteNode(ns, c.id)
      [] c.op = "move" ->
            LET m == moveNode(ns, c.id, c.target, c.pos)
            IN  IF m.set THEN m.tree ELSE ns

\* the forest the calls make when each is applied, in the order of
\* invocation, to the forest the calls before it have made
RECURSIVE InOrder(_, _)
InOrder(ns, cs) ==
    IF cs = <<>> THEN ns
    ELSE InOrder(applyCall(ns, Head(cs)), Tail(cs))

\* C12: once every queued update is rendered, the forest is the one the
\* invoked adds, renames, deletes and moves make when each is applied, in
\* invocation order, to the result of all those invoked before it.
C12_InvocationOrder ==
    pending = <<>> => nodes = InOrder(initialData, calls)

\* handleDrop called handleMoveNode: the data names another node and the
\* target shows a drop position
MoveAttempted ==
    last.id # "" /\ last.id # last.target /\ last.pos # Null

\* C15: once a drop on a node is handled, draggingNodeId is null and the
\* drop position of the drop target is null, whether the move was applied,
\* refused or not attempted; when it was refused (the target is below the
\* dragged node) or not attempted, the forest is the forest before the drop.
C15_DropClearsIndicator ==
    last.op = "drop" =>
        /\ draggingNodeId = Null
        /\ last.target \in DOMAIN treeNode
        /\ treeNode[last.target].dropPosition = Null
        /\ (~MoveAttempted \/ IsDescendantTarget(last.before, last.id, last.target))
             => nodes = last.before

C15_Witness ==
    /\ last.op = "drop"
    /\ last.id = "1-2"
    /\ last.target = "1-2-1"
    /\ last.pos = "bottom"
    /\ last.logged
    /\ draggingNodeId = Null
    /\ treeNode["1-2-1"].dropPosition = Null
    /\ nodes = last.before

\* a text that is empty or has whitespace only
Blank(text) == \A i \in 1..Len(text) : text[i] \in Whitespace

\* C13: after any sequence of adds and of saves of the title input, every
\* node of the forest has a non-empty title; a save whose text is empty or
\* whitespace only leaves the forest as it was (rename is not called) and
\* the input back at the title of the node.
C13_TitlesNonEmpty ==
    /\ \A n \in AllNodes(nodes) : n.title # ""
    /\ (last.op = "save" /\ Blank(last.text)) =>
            /\ nodes = last.before
            /\ treeNode[last.id].title = <<findNode(nodes, last.id)[1].title>>

C13_Witness ==
    /\ last.op = "save"
    /\ last.id = "1-1"
    /\ last.text = <<"\t", " ">>
    /\ nodes = last.before
    /\ findNode(nodes, "1-1")[1].title = "The first step"
    /\ ~treeNode["1-1"].isEditing

============================================================================
